---- MODULE Spec2Model ----
(***************************************************************************)
(* Model of the gateway registry: the HTTP handlers of package handlers    *)
(* (both copies kept in the repository: the statement-by-statement one of  *)
(* pkg/handlers/handlers.go and the transactional one), the prune          *)
(* goroutine of main, and the relational store they share.                 *)
(*                                                                         *)
(* Every database statement issued through h.DB is one atomic step; a      *)
(* Begin..Commit block is one atomic step that either applies all of its   *)
(* statements or none.  A handler is a process whose pc walks through its  *)
(* statements; handlers of different requests and the prune goroutine      *)
(* interleave freely between statements.                                   *)
(***************************************************************************)
EXTENDS Integers, Sequences, FiniteSets, Bags, TLC

\* ------------------------------------------------------------------ bounds
NumWorkers == 2
MaxIds == 2
MaxRequests == 2
MaxTime == 2
MaxFaults == 1
RaceRequests == 2
SweepRequests == 2
SerialRequests == 3
GoneRequests == 3
MaxLen == 2
LiveRequests == 1

\* ------------------------------------------------- program constants
\* cutoff := time.Now().Add(-1 * time.Hour), in clock units of the model
StaleAfter == 1
\* time.Sleep(1 * time.Hour), in clock units of the model
SweepInterval == 1

Workers == 1..NumWorkers
Ids == 1..MaxIds
Times == 0..MaxTime

\* ------------------------------------------------------------ requests
\* types.ServiceRegistrationRequest values the clients send.  nil names the
\* map and slice fields the JSON body left out (a nil map or slice, which
\* ranges like an empty one)
Requests ==
  << [Name |-> "alpha", Description |-> "maps", URL |-> "u1",
      Capabilities |-> [c |-> TRUE], Categories |-> <<"search">>,
      Metadata |-> [k |-> "v1"], nil |-> {}],
     [Name |-> "beta", Description |-> "", URL |-> "u2",
      Capabilities |-> [c |-> FALSE], Categories |-> <<"index">>,
      Metadata |-> <<>>, nil |-> {"Metadata"}],
     [Name |-> "", Description |-> "maps", URL |-> "u3",
      Capabilities |-> [c |-> TRUE], Categories |-> <<"search">>,
      Metadata |-> <<>>, nil |-> {"Metadata"}],
     [Name |-> "delta", Description |-> "maps", URL |-> "",
      Capabilities |-> [c |-> TRUE], Categories |-> <<"search">>,
      Metadata |-> <<>>, nil |-> {"Metadata"}],
     [Name |-> "epsilon", Description |-> "maps", URL |-> "u5",
      Capabilities |-> <<>>, Categories |-> <<"search">>,
      Metadata |-> <<>>, nil |-> {"Capabilities", "Metadata"}],
     [Name |-> "zeta", Description |-> "maps", URL |-> "u6",
      Capabilities |-> [c |-> TRUE], Categories |-> <<>>,
      Metadata |-> <<>>, nil |-> {"Categories", "Metadata"}],
     [Name |-> "gamma", Description |-> "tiles", URL |-> "u7",
      Capabilities |-> <<>>, Categories |-> <<>>,
      Metadata |-> [k |-> "v2"], nil |-> {}],
     [Name |-> "eta", Description |-> "tiles", URL |-> "u8",
      Capabilities |-> [c |-> TRUE] @@ [d |-> FALSE],
      Categories |-> <<"search", "search">>,
      Metadata |-> [k |-> "v1"], nil |-> {}] >>

RequestIds == DOMAIN Requests

\* the two well-formed bodies the racing clients send
Payloads == {r \in RequestIds : Requests[r].Name \in {"alpha", "beta"}}

\* range over a map: the keys still to visit
MapKeys(m) == DOMAIN m

\* range over a slice: the elements still to visit
SliceElems(s) == s

\* ------------------------------------------------------------- the store
NoRow == [absent |-> TRUE]

\* types.MCPService row (the columns of the table, without the relations)
ServiceRow(name, description, url, createdAt, lastSeen) ==
  [Name |-> name, Description |-> description, URL |-> url,
   CreatedAt |-> createdAt, LastSeen |-> lastSeen]

\* a child table: for every service_id the bag of rows that carry it
\* (the auto-increment primary key of a row is abstracted to multiplicity)
EmptyTable == [s \in Ids |-> EmptyBag]

\* Create(&row) on a child table
InsertRow(table, sid, row) == [table EXCEPT ![sid] = @ (+) SetToBag({row})]

\* a Delete that removes nothing: the rows to come are added to the old
KeepRows(table, sid) == table

\* Where("service_id = ?", sid).Delete(&T{})
DeleteWhere(table, sid) == [table EXCEPT ![sid] = EmptyBag]

\* types.Capability row without its keys
CapabilityRow(name, enabled) == [Name |-> name, Enabled |-> enabled]
\* types.Category row without its keys
CategoryRow(name) == [Name |-> name]
\* types.MetadataItem row without its keys
MetadataRow(key, value) == [Key |-> key, Value |-> value]

VARIABLES
  main,          \* which main is built: "part_002" | "part_003"
  impl,          \* which copy of package handlers is built: "plain" | "tx"
  sent,          \* the request bodies the clients of this run send
  gone,          \* ghost: the ids whose DELETE was answered 200
  now,           \* the wall clock read by time.Now()
  services,      \* table mcp_services: [Ids -> row or NoRow]
  capabilities,  \* table capabilities
  categories,    \* table categories
  metadata,      \* table metadata_items
  nextId,        \* the next value uuid.New() returns
  budget,        \* number of requests the clients still send
  faults,        \* number of store statements that may still fail
  handler,       \* per worker: the request it serves and where it is
  pruner         \* the prune goroutine of main

vars == << main, impl, sent, gone, now, services, capabilities, categories, metadata,
           nextId, budget, faults, handler, pruner >>

tables == << services, capabilities, categories, metadata >>

\* ------------------------------------------------------- handler state
NoLoad == [rows |-> <<>>, Capabilities |-> <<>>, Categories |-> <<>>,
           Metadata |-> <<>>]

Idle == [pc |-> "idle", op |-> "none", id |-> 0, request |-> 0, t0 |-> 0,
         service |-> NoRow, keys |-> {}, rest |-> <<>>, category |-> "",
         sel |-> {}, loaded |-> NoLoad, status |-> 0,
         failed |-> FALSE, wrote |-> FALSE, before |-> <<>>,
         query |-> <<>>]

\* at, seen and removed are ghosts of the last cycle: the time.Now() the
\* cutoff was taken from, the last_seen column as the query found it (-1
\* where there was no row), and the services the loop deleted; missed is
\* a ghost of all cycles: the services whose row was still there after
\* the loop's db.Delete(&service)
PrunerInit == [pc |-> "sleep", wakeAt |-> SweepInterval, cutoff |-> 0,
               inactive |-> {}, cur |-> 0,
               at |-> 0, seen |-> [s \in Ids |-> -1], removed |-> {},
               missed |-> {}]

\* the tables after earlier registrations, committed at time 0: regs maps
\* the ids given out so far to the request each was registered with (the
\* store outlives the process)
Registered(regs) ==
  /\ services = [s \in Ids |->
       IF s \in DOMAIN regs
       THEN ServiceRow(Requests[regs[s]].Name, Requests[regs[s]].Description,
                       Requests[regs[s]].URL, 0, 0)
       ELSE NoRow]
  /\ capabilities = [s \in Ids |->
       IF s \in DOMAIN regs
       THEN SetToBag({CapabilityRow(k, Requests[regs[s]].Capabilities[k]) :
                        k \in DOMAIN Requests[regs[s]].Capabilities})
       ELSE EmptyBag]
  /\ categories = [s \in Ids |->
       IF s \in DOMAIN regs
       THEN SetToBag({CategoryRow(Requests[regs[s]].Categories[i]) :
                        i \in DOMAIN Requests[regs[s]].Categories})
       ELSE EmptyBag]
  /\ metadata = [s \in Ids |->
       IF s \in DOMAIN regs
       THEN SetToBag({MetadataRow(k, Requests[regs[s]].Metadata[k]) :
                        k \in DOMAIN Requests[regs[s]].Metadata})
       ELSE EmptyBag]
  /\ nextId = Cardinality(DOMAIN regs) + 1

\* one service, registered with the first request
One == (1 :> 1)

\* two services, registered with the first and the second request
Two == (1 :> 1) @@ (2 :> 2)

\* no service was ever registered
Fresh ==
  /\ services = [s \in Ids |-> NoRow]
  /\ capabilities = EmptyTable
  /\ categories = EmptyTable
  /\ metadata = EmptyTable
  /\ nextId = 1

\* the two mains of the repository
Mains == {"part_002", "part_003"}

\* a process of one of the mains ms starts: both copies of the handlers, n
\* requests to come, f store failures to come
StartMain(ms, n, f, bodies) ==
  /\ main \in ms
  /\ impl \in {"plain", "tx"}
  /\ sent = bodies
  /\ gone = {}
  /\ now = 0
  /\ budget = n
  /\ faults = f
  /\ handler = [w \in Workers |-> Idle]
  /\ pruner = PrunerInit

\* the main that routes every handler (the handlers are entered directly,
\* as its router enters them)
StartWith(n, f, bodies) == StartMain({"part_002"}, n, f, bodies)

Start(n, f) == StartWith(n, f, Payloads)

Init ==
  /\ Start(MaxRequests, MaxFaults)
  /\ Fresh \/ Registered(One)

\* the clock advances
Tick ==
  /\ \A w \in Workers : handler[w].pc # "done"
  /\ now < MaxTime
  /\ now' = now + 1
  /\ UNCHANGED << main, impl, sent, gone, services, capabilities, categories,
                  metadata,
                  nextId, budget, faults, handler, pruner >>

\* a timestamp one clock unit further in the past; the oldest timestamp
\* the model tells apart is 0 (and -1 is kept for "no row")
Shift(t) == IF t > 0 THEN t - 1 ELSE t

ShiftRow(row) ==
  IF row = NoRow THEN NoRow
  ELSE [row EXCEPT !.CreatedAt = Shift(@), !.LastSeen = Shift(@)]

\* the clock advances past the window MaxTime of timestamps the model
\* tells apart: now stays at the top of the window and every timestamp
\* held anywhere moves one unit into the past. The window moves only
\* when that keeps the outcome of "last_seen < cutoff" for a cutoff the
\* prune goroutine holds and has not yet used: the query does not read
\* the clock, so the time that passes before it changes nothing else.
Elapse ==
  /\ \A w \in Workers : handler[w].pc # "done"
  /\ now = MaxTime
  /\ pruner.pc = "query" => pruner.cutoff # 1
  /\ services' = [s \in Ids |-> ShiftRow(services[s])]
  /\ handler' = [w \in Workers |->
       [handler[w] EXCEPT
          !.t0 = Shift(@),
          !.service = ShiftRow(@),
          !.loaded.rows = [s \in DOMAIN @ |-> ShiftRow(@[s])]]]
  /\ pruner' = [pruner EXCEPT
       !.wakeAt = Shift(@), !.cutoff = Shift(@), !.at = Shift(@),
       !.seen = [s \in Ids |-> Shift(@[s])]]
  /\ UNCHANGED << main, impl, sent, gone, now, capabilities, categories,
                  metadata, nextId, budget, faults >>

\* ------------------------------------------------------------ helpers
Req(h) == Requests[h.request]

\* Save(&service): UPDATE of every column by primary key; when no row is
\* affected the row is inserted (INSERT .. ON CONFLICT DO UPDATE)
Save(tab, sid, row) == [tab EXCEPT ![sid] = row]

\* an insert into a child table that the foreign key lets through whatever
\* service_id it carries
Unconstrained(sid) == TRUE

\* the foreign key AutoMigrate creates on each child table from
\* gorm:"foreignKey:ServiceID" (service_id REFERENCES mcp_services(id)): an
\* insert of a child row passes only while its service row exists
ParentExists(sid) == services[sid] # NoRow

\* the same foreign key seen from the parent (ON DELETE NO ACTION): a
\* service row can be deleted only when no child row refers to it
Unreferenced(sid) ==
  /\ capabilities[sid] = EmptyBag
  /\ categories[sid] = EmptyBag
  /\ metadata[sid] = EmptyBag

\* db.Delete(&service): DELETE by primary key
DeleteByKey(tab, sid) == [tab EXCEPT ![sid] = NoRow]

\* the rows one request's collections turn into
CapabilityRows(req) ==
  LET m == req.Capabilities
  IN  SetToBag({CapabilityRow(k, m[k]) : k \in DOMAIN m})

RECURSIVE CategoryRows(_)
CategoryRows(names) ==
  IF Len(names) = 0 THEN EmptyBag
  ELSE SetToBag({CategoryRow(Head(names))}) (+) CategoryRows(Tail(names))

MetadataRows(req) ==
  LET m == req.Metadata
  IN  SetToBag({MetadataRow(k, m[k]) : k \in DOMAIN m})

\* a validation that also rejects an empty map or slice (len(..) == 0)
MissingOrEmptyFields(req) ==
  \/ req.Name = ""
  \/ req.URL = ""
  \/ DOMAIN req.Capabilities = {}
  \/ Len(req.Categories) = 0

\* if request.Name == "" || request.URL == "" ||
\*    request.Capabilities == nil || request.Categories == nil
MissingRequiredFields(req) ==
  \/ req.Name = ""
  \/ req.URL = ""
  \/ "Capabilities" \in req.nil
  \/ "Categories" \in req.nil

\* the handler wrote its response with this status code; its locals die
Respond(h, code) ==
  [Idle EXCEPT !.pc = "done", !.status = code, !.op = h.op, !.id = h.id,
               !.request = h.request, !.category = h.category,
               !.sel = h.sel, !.loaded = h.loaded,
               !.failed = h.failed, !.wrote = h.wrote, !.before = h.before,
               !.query = h.query]

\* ghost bookkeeping of one statement: did it fail, did it change a table
Note(h, ok, changed) ==
  [h EXCEPT !.failed = @ \/ ~ok, !.wrote = @ \/ changed]

\* a response is delivered before anything else happens (no step reads a
\* finished handler, so this order loses no behaviour of the store)
Running == \A w \in Workers : handler[w].pc # "done"

\* ghost: the child rows service sid owns
ChildRows(sid) == << capabilities[sid], categories[sid], metadata[sid] >>

\* worker w is at statement pc
At(w, pc) == Running /\ handler[w].pc = pc

\* the server hands a new request to the first free worker
Free(w) ==
  /\ Running
  /\ budget > 0
  /\ handler[w].pc = "idle"
  /\ \A v \in Workers : v < w => handler[v].pc # "idle"

\* the outcomes of one store statement: it fails only while the fault
\* budget lasts
Outcomes == IF faults > 0 THEN BOOLEAN ELSE {TRUE}

Charge(ok) == faults' = IF ok THEN faults ELSE faults - 1

\* ---- where a handler goes after each loop (an empty loop has no step)
EnterReadback(h) == [h EXCEPT !.pc = "first", !.keys = {}, !.rest = <<>>]

AfterMetadata(h) == EnterReadback(h)

EnterMetadata(h) ==
  LET ks == MapKeys(Req(h).Metadata)
  IN  IF ks = {} THEN AfterMetadata(h)
      ELSE [h EXCEPT !.pc = "insert_metadata", !.keys = ks]

AfterCategories(h) ==
  IF h.op = "Update" THEN [h EXCEPT !.pc = "delete_metadata"]
  ELSE EnterMetadata(h)

EnterCategories(h) ==
  LET es == SliceElems(Req(h).Categories)
  IN  IF Len(es) = 0 THEN AfterCategories(h)
      ELSE [h EXCEPT !.pc = "insert_category", !.rest = es]

AfterCapabilities(h) ==
  IF h.op = "Update" THEN [h EXCEPT !.pc = "delete_categories"]
  ELSE EnterCategories(h)

EnterCapabilities(h) ==
  LET ks == MapKeys(Req(h).Capabilities)
  IN  IF ks = {} THEN AfterCapabilities(h)
      ELSE [h EXCEPT !.pc = "insert_capability", !.keys = ks]

\* ------------------------------------------------- CreateServiceHandler
\* decode, validate, uuid.New(), now := time.Now()
CreateServiceHandler(w) ==
  /\ Free(w)
  /\ \E r \in sent :
       IF MissingRequiredFields(Requests[r])
       THEN /\ handler' = [handler EXCEPT ![w] =
                 Respond([Idle EXCEPT !.op = "Create", !.request = r], 400)]
            /\ UNCHANGED nextId
       ELSE /\ nextId <= MaxIds
            /\ handler' = [handler EXCEPT ![w] =
                 [Idle EXCEPT !.op = "Create", !.request = r, !.id = nextId,
                              !.t0 = now,
                              !.pc = IF impl = "tx" THEN "create_tx"
                                     ELSE "insert_service"]]
            /\ nextId' = nextId + 1
  /\ budget' = budget - 1
  /\ UNCHANGED << main, impl, sent, gone, now, tables, faults, pruner >>

\* the row CreateServiceHandler builds: LastSeen is its own time.Now(),
\* CreatedAt (autoCreateTime) is the time of the INSERT
NewService(req, t, created) ==
  ServiceRow(req.Name, req.Description, req.URL, created, t)

\* handlers.go: h.DB.Create(&service), the only checked statement
CreateService(w) ==
  LET h == handler[w] IN
  /\ At(w, "insert_service")
  /\ \E t \in h.t0..now, ok \in Outcomes :
       /\ Charge(ok)
       /\ IF ok
          THEN /\ services' = Save(services, h.id, NewService(Req(h), t, now))
               /\ handler' = [handler EXCEPT ![w] =
                    EnterCapabilities(Note(h, TRUE, TRUE))]
          ELSE /\ handler' = [handler EXCEPT ![w] =
                    Respond(Note(h, FALSE, FALSE), 500)]
               /\ UNCHANGED services
  /\ UNCHANGED << main, impl, sent, gone, now, capabilities, categories,
                  metadata, nextId,
                  budget, pruner >>

\* handlers.go: h.DB.Create(&capability) inside the range loop, error ignored
InsertCapability(w) ==
  LET h == handler[w] IN
  /\ At(w, "insert_capability")
  /\ \E k \in h.keys, ok \in Outcomes :
       LET done == ok /\ ParentExists(h.id)
           h1 == Note([h EXCEPT !.keys = @ \ {k}], done, done)
       IN  /\ Charge(ok)
           /\ capabilities' =
                IF done THEN InsertRow(capabilities, h.id,
                                     CapabilityRow(k, Req(h).Capabilities[k]))
                ELSE capabilities
           /\ handler' = [handler EXCEPT ![w] =
                IF h1.keys = {} THEN AfterCapabilities(h1) ELSE h1]
  /\ UNCHANGED << main, impl, sent, gone, now, services, categories, metadata,
                  nextId,
                  budget, pruner >>

\* handlers.go: h.DB.Create(&category) inside the range loop, error ignored
InsertCategory(w) ==
  LET h == handler[w] IN
  /\ At(w, "insert_category")
  /\ \E ok \in Outcomes :
       LET done == ok /\ ParentExists(h.id)
           h1 == Note([h EXCEPT !.rest = Tail(@)], done, done)
       IN  /\ Charge(ok)
           /\ categories' =
                IF done THEN InsertRow(categories, h.id,
                                     CategoryRow(Head(h.rest)))
                ELSE categories
           /\ handler' = [handler EXCEPT ![w] =
                IF Len(h1.rest) = 0 THEN AfterCategories(h1) ELSE h1]
  /\ UNCHANGED << main, impl, sent, gone, now, services, capabilities, metadata,
                  nextId,
                  budget, pruner >>

\* handlers.go: h.DB.Create(&metadata) inside the range loop, error ignored
InsertMetadata(w) ==
  LET h == handler[w] IN
  /\ At(w, "insert_metadata")
  /\ \E k \in h.keys, ok \in Outcomes :
       LET done == ok /\ ParentExists(h.id)
           h1 == Note([h EXCEPT !.keys = @ \ {k}], done, done)
       IN  /\ Charge(ok)
           /\ metadata' =
                IF done THEN InsertRow(metadata, h.id,
                                     MetadataRow(k, Req(h).Metadata[k]))
                ELSE metadata
           /\ handler' = [handler EXCEPT ![w] =
                IF h1.keys = {} THEN AfterMetadata(h1) ELSE h1]
  /\ UNCHANGED << main, impl, sent, gone, now, services, capabilities,
                  categories, nextId,
                  budget, pruner >>

\* the transactional copy: Begin, Create(&service), the three loops, Commit;
\* any failing statement rolls everything back and answers 500
CreateTx(w) ==
  LET h == handler[w] IN
  /\ At(w, "create_tx")
  /\ \E t \in h.t0..now, ok \in Outcomes :
       /\ Charge(ok)
       /\ IF ok
          THEN /\ services' = Save(services, h.id, NewService(Req(h), t, now))
               /\ capabilities' =
                    [capabilities EXCEPT ![h.id] = @ (+) CapabilityRows(Req(h))]
               /\ categories' =
                    [categories EXCEPT ![h.id] =
                       @ (+) CategoryRows(Req(h).Categories)]
               /\ metadata' =
                    [metadata EXCEPT ![h.id] = @ (+) MetadataRows(Req(h))]
               /\ handler' = [handler EXCEPT ![w] =
                    EnterReadback(Note(h, TRUE, TRUE))]
          ELSE /\ handler' = [handler EXCEPT ![w] =
                    Respond(Note(h, FALSE, FALSE), 500)]
               /\ UNCHANGED tables
  /\ UNCHANGED << main, impl, sent, gone, now, nextId, budget, pruner >>

\* ------------------------------------------- First(..) with three Preloads
\* the statement-by-statement copy ignores the error of the read-back and
\* answers with the zero value; the transactional copy answers 500
ReadbackMissing(h) ==
  IF impl = "tx" THEN Respond(h, 500)
  ELSE Respond(h, IF h.op = "Create" THEN 201 ELSE 200)

\* SELECT * FROM mcp_services WHERE id = ? (the read-back of Create/Update)
First(w) ==
  LET h == handler[w] IN
  /\ At(w, "first")
  /\ handler' = [handler EXCEPT ![w] =
       IF services[h.id] = NoRow THEN ReadbackMissing(h)
       ELSE [h EXCEPT !.pc = "preload_capabilities", !.sel = {h.id},
                      !.loaded.rows = [s \in {h.id} |-> services[s]]]]
  /\ UNCHANGED << main, impl, sent, gone, now, tables, nextId, budget, faults,
                  pruner >>

\* SELECT * FROM capabilities WHERE service_id IN (..)
PreloadCapabilities(w) ==
  LET h == handler[w] IN
  /\ At(w, "preload_capabilities")
  /\ handler' = [handler EXCEPT ![w] =
       [h EXCEPT !.pc = "preload_categories",
                 !.loaded.Capabilities = [s \in h.sel |-> capabilities[s]]]]
  /\ UNCHANGED << main, impl, sent, gone, now, tables, nextId, budget, faults,
                  pruner >>

\* SELECT * FROM categories WHERE service_id IN (..)
PreloadCategories(w) ==
  LET h == handler[w] IN
  /\ At(w, "preload_categories")
  /\ handler' = [handler EXCEPT ![w] =
       [h EXCEPT !.pc = "preload_metadata",
                 !.loaded.Categories = [s \in h.sel |-> categories[s]]]]
  /\ UNCHANGED << main, impl, sent, gone, now, tables, nextId, budget, faults,
                  pruner >>

\* the chain without Preload("Metadata"): the Metadata slice stays empty
NoPreloadMetadata(w) ==
  LET h == handler[w] IN
  /\ At(w, "preload_metadata")
  /\ handler' = [handler EXCEPT ![w] =
       Respond([h EXCEPT !.loaded.Metadata = [s \in h.sel |-> EmptyBag]],
               IF h.op = "Create" THEN 201 ELSE 200)]
  /\ UNCHANGED << main, impl, sent, gone, now, tables, nextId, budget, faults,
                  pruner >>

\* SELECT * FROM metadata_items WHERE service_id IN (..), then the response
PreloadMetadata(w) ==
  LET h == handler[w] IN
  /\ At(w, "preload_metadata")
  /\ handler' = [handler EXCEPT ![w] =
       Respond([h EXCEPT !.loaded.Metadata = [s \in h.sel |-> metadata[s]]],
               IF h.op = "Create" THEN 201 ELSE 200)]
  /\ UNCHANGED << main, impl, sent, gone, now, tables, nextId, budget, faults,
                  pruner >>

\* ------------------------------------------------ ServiceModelToResponse
\* capabilities[cap.Name] = cap.Enabled over the loaded slice.  Where two
\* rows carry one name the later one in the slice wins and the query fixes
\* no order, so every choice is a map the response may carry
ResponseCapabilities(rows) ==
  {f \in [{r.Name : r \in BagToSet(rows)} -> BOOLEAN] :
     \A n \in DOMAIN f : BagIn(CapabilityRow(n, f[n]), rows)}

\* categories[i] = cat.Name: the names, each as often as it has rows
ResponseCategories(rows) ==
  [n \in {r.Name : r \in BagToSet(rows)} |-> CopiesIn(CategoryRow(n), rows)]

\* metadata[item.Key] = item.Value
ResponseMetadata(rows) ==
  {f \in [{r.Key : r \in BagToSet(rows)} -> {r.Value : r \in BagToSet(rows)}] :
     \A k \in DOMAIN f : BagIn(MetadataRow(k, f[k]), rows)}

\* the responses ServiceModelToResponse may build from what was loaded for
\* service s
ServiceModelToResponse(loaded, s) ==
  {[Name |-> loaded.rows[s].Name,
    Description |-> loaded.rows[s].Description,
    URL |-> loaded.rows[s].URL,
    CreatedAt |-> loaded.rows[s].CreatedAt,
    LastSeen |-> loaded.rows[s].LastSeen,
    Capabilities |-> c,
    Categories |-> ResponseCategories(loaded.Categories[s]),
    Metadata |-> m] :
     c \in ResponseCapabilities(loaded.Capabilities[s]),
     m \in ResponseMetadata(loaded.Metadata[s])}

\* ---------------------------------------------------- GetServiceHandler
\* First(&service, "id = ?", serviceID) with the preloads: the service row
\* is read here, the three relations by the Preload statements that follow
GetServiceHandler(w) ==
  /\ Free(w)
  /\ \E id \in Ids :
       LET h == [Idle EXCEPT !.op = "Get", !.id = id]
       IN  handler' = [handler EXCEPT ![w] =
             IF services[id] = NoRow THEN Respond(h, 404)
             ELSE [h EXCEPT !.pc = "preload_capabilities", !.sel = {id},
                            !.loaded.rows = [s \in {id} |-> services[s]]]]
  /\ budget' = budget - 1
  /\ UNCHANGED << main, impl, sent, gone, now, tables, nextId, faults, pruner >>

\* -------------------------------------------------- ListServicesHandler
\* the category names a client may filter by ("" is no filter)
CategoryFilters == {"", "search", "index"}

\* Model(&Category{}).Where("name = ?", category).Pluck("service_id", ..)
Pluck(category) ==
  {s \in Ids : BagIn(CategoryRow(category), categories[s])}

\* query.Find(&services), restricted to "id IN ?" when ids were plucked
Find(ids) == {s \in ids : services[s] # NoRow}

\* without a filter the first statement is the Find; with one it is the Pluck
ListServicesHandler(w) ==
  /\ Free(w)
  /\ \E c \in CategoryFilters :
       LET h == [Idle EXCEPT !.op = "List", !.category = c]
       IN  handler' = [handler EXCEPT ![w] =
             IF c = ""
             THEN [h EXCEPT !.pc = "preload_capabilities", !.sel = Find(Ids),
                            !.loaded.rows = [s \in Find(Ids) |-> services[s]]]
             ELSE IF Pluck(c) = {} THEN Respond(h, 200)
             ELSE [h EXCEPT !.pc = "find", !.sel = Pluck(c)]]
  /\ budget' = budget - 1
  /\ UNCHANGED << main, impl, sent, gone, now, tables, nextId, faults, pruner >>

\* query.Where("id IN ?", serviceIDs).Find(&services)
ListFind(w) ==
  LET h == handler[w] IN
  /\ At(w, "find")
  /\ handler' = [handler EXCEPT ![w] =
       [h EXCEPT !.pc = "preload_capabilities", !.sel = Find(h.sel),
                 !.loaded.rows = [s \in Find(h.sel) |-> services[s]]]]
  /\ UNCHANGED << main, impl, sent, gone, now, tables, nextId, budget, faults,
                  pruner >>

\* ------------------------------------------------ SearchServicesHandler
\* text as the query sees it: a sequence of characters
Chars == {"a", "A", "b", "_", "%"}

Strings == UNION {[1..n -> Chars] : n \in 0..MaxLen}

\* case folding of ILIKE
Lower(c) == IF c = "A" THEN "a" ELSE c

\* text LIKE pattern, letters compared case-insensitively: % stands for
\* any run of characters, _ for any one character
RECURSIVE ILike(_, _)
ILike(text, pattern) ==
  IF Len(pattern) = 0 THEN Len(text) = 0
  ELSE IF Head(pattern) = "%"
       THEN \/ ILike(text, Tail(pattern))
            \/ Len(text) > 0 /\ ILike(Tail(text), pattern)
       ELSE /\ Len(text) > 0
            /\ Head(pattern) = "_" \/ Lower(Head(pattern)) = Lower(Head(text))
            /\ ILike(Tail(text), Tail(pattern))

\* Where("name ILIKE ? OR description ILIKE ?", "%"+query+"%",
\* "%"+query+"%").Find(&services)
SearchFind(query) ==
  {s \in Ids :
     /\ services[s] # NoRow
     /\ \/ ILike(services[s].Name, <<"%">> \o query \o <<"%">>)
        \/ ILike(services[s].Description, <<"%">> \o query \o <<"%">>)}

\* query := r.URL.Query().Get("q"); 400 when it is empty, else the query
\* and its preloads
SearchServicesHandler(w) ==
  /\ Free(w)
  /\ \E q \in Strings :
       LET h == [Idle EXCEPT !.op = "Search", !.query = q]
       IN  handler' = [handler EXCEPT ![w] =
             IF Len(q) = 0 THEN Respond(h, 400)
             ELSE [h EXCEPT !.pc = "preload_capabilities",
                            !.sel = SearchFind(q),
                            !.loaded.rows =
                              [s \in SearchFind(q) |-> services[s]]]]
  /\ budget' = budget - 1
  /\ UNCHANGED << main, impl, sent, gone, now, tables, nextId, faults, pruner >>

\* ------------------------------------------------- UpdateServiceHandler
\* the existence check First(&existingService, "id = ?", serviceID)
UpdateServiceHandler(w) ==
  /\ Free(w)
  /\ \E id \in Ids, r \in sent :
       LET h == [Idle EXCEPT !.op = "Update", !.id = id, !.request = r,
                             !.before = ChildRows(id)]
       IN  handler' = [handler EXCEPT ![w] =
             IF services[id] = NoRow THEN Respond(h, 404)
             ELSE [h EXCEPT !.service = services[id], !.t0 = now,
                            !.pc = IF impl = "tx" THEN "update_tx"
                                   ELSE "save"]]
  /\ budget' = budget - 1
  /\ UNCHANGED << main, impl, sent, gone, now, tables, nextId, faults, pruner >>

\* an Update that stamps CreatedAt as well
UpdatedAndRestamped(row, req, t) ==
  [row EXCEPT !.Name = req.Name, !.Description = req.Description,
              !.URL = req.URL, !.LastSeen = t, !.CreatedAt = t]

\* existingService with Name, Description, URL and LastSeen overwritten
Updated(row, req, t) ==
  [row EXCEPT !.Name = req.Name, !.Description = req.Description,
              !.URL = req.URL, !.LastSeen = t]

\* handlers.go: h.DB.Save(&existingService), error ignored
UpdateSave(w) ==
  LET h == handler[w] IN
  /\ At(w, "save")
  /\ \E t \in h.t0..now, ok \in Outcomes :
       LET row == Updated(h.service, Req(h), t)
           new == IF ok THEN Save(services, h.id, row) ELSE services
       IN  /\ Charge(ok)
           /\ services' = new
           /\ handler' = [handler EXCEPT ![w] =
                Note([h EXCEPT !.pc = "delete_capabilities",
                               !.service = row], ok, new # services)]
  /\ UNCHANGED << main, impl, sent, gone, now, capabilities, categories,
                  metadata, nextId,
                  budget, pruner >>

\* handlers.go: Where("service_id = ?", id).Delete(&types.Capability{}),
\* error ignored (Update and Delete)
DeleteCapabilities(w) ==
  LET h == handler[w] IN
  /\ At(w, "delete_capabilities")
  /\ \E ok \in Outcomes :
       LET new == IF ok THEN DeleteWhere(capabilities, h.id) ELSE capabilities
           h1 == Note(h, ok, new # capabilities)
       IN  /\ Charge(ok)
           /\ capabilities' = new
           /\ handler' = [handler EXCEPT ![w] =
                IF h.op = "Update" THEN EnterCapabilities(h1)
                ELSE [h1 EXCEPT !.pc = "delete_categories"]]
  /\ UNCHANGED << main, impl, sent, gone, now, services, categories, metadata,
                  nextId,
                  budget, pruner >>

\* handlers.go: Where("service_id = ?", id).Delete(&types.Category{})
DeleteCategories(w) ==
  LET h == handler[w] IN
  /\ At(w, "delete_categories")
  /\ \E ok \in Outcomes :
       LET new == IF ok THEN DeleteWhere(categories, h.id) ELSE categories
           h1 == Note(h, ok, new # categories)
       IN  /\ Charge(ok)
           /\ categories' = new
           /\ handler' = [handler EXCEPT ![w] =
                IF h.op = "Update" THEN EnterCategories(h1)
                ELSE [h1 EXCEPT !.pc = "delete_metadata"]]
  /\ UNCHANGED << main, impl, sent, gone, now, services, capabilities, metadata,
                  nextId,
                  budget, pruner >>

\* handlers.go: Where("service_id = ?", id).Delete(&types.MetadataItem{})
DeleteMetadata(w) ==
  LET h == handler[w] IN
  /\ At(w, "delete_metadata")
  /\ \E ok \in Outcomes :
       LET new == IF ok THEN DeleteWhere(metadata, h.id) ELSE metadata
           h1 == Note(h, ok, new # metadata)
       IN  /\ Charge(ok)
           /\ metadata' = new
           /\ handler' = [handler EXCEPT ![w] =
                IF h.op = "Update" THEN EnterMetadata(h1)
                ELSE [h1 EXCEPT !.pc = "delete_service"]]
  /\ UNCHANGED << main, impl, sent, gone, now, services, capabilities,
                  categories, nextId,
                  budget, pruner >>

\* the transaction without its three Deletes: the rows of the body are
\* added to the ones the service already owns
UpdateTxMerge(w) ==
  LET h == handler[w] IN
  /\ At(w, "update_tx")
  /\ \E t \in h.t0..now, ok \in Outcomes :
       /\ Charge(ok)
       /\ IF ok
          THEN /\ services' =
                    Save(services, h.id, Updated(h.service, Req(h), t))
               /\ capabilities' =
                    [capabilities EXCEPT ![h.id] = @ (+) CapabilityRows(Req(h))]
               /\ categories' =
                    [categories EXCEPT ![h.id] =
                       @ (+) CategoryRows(Req(h).Categories)]
               /\ metadata' =
                    [metadata EXCEPT ![h.id] = @ (+) MetadataRows(Req(h))]
               /\ handler' = [handler EXCEPT ![w] =
                    EnterReadback(Note(h, TRUE, TRUE))]
          ELSE /\ handler' = [handler EXCEPT ![w] =
                    Respond(Note(h, FALSE, FALSE), 500)]
               /\ UNCHANGED tables
  /\ UNCHANGED << main, impl, sent, gone, now, nextId, budget, pruner >>

\* the transactional copy: Begin, Save, and for each relation the Delete
\* and the insert loop, Commit; any failure rolls back and answers 500
UpdateTx(w) ==
  LET h == handler[w] IN
  /\ At(w, "update_tx")
  /\ \E t \in h.t0..now, ok \in Outcomes :
       /\ Charge(ok)
       /\ IF ok
          THEN /\ services' =
                    Save(services, h.id, Updated(h.service, Req(h), t))
               /\ capabilities' =
                    [capabilities EXCEPT ![h.id] = CapabilityRows(Req(h))]
               /\ categories' =
                    [categories EXCEPT ![h.id] =
                       CategoryRows(Req(h).Categories)]
               /\ metadata' =
                    [metadata EXCEPT ![h.id] = MetadataRows(Req(h))]
               /\ handler' = [handler EXCEPT ![w] =
                    EnterReadback(Note(h, TRUE, TRUE))]
          ELSE /\ handler' = [handler EXCEPT ![w] =
                    Respond(Note(h, FALSE, FALSE), 500)]
               /\ UNCHANGED tables
  /\ UNCHANGED << main, impl, sent, gone, now, nextId, budget, pruner >>

\* ------------------------------------------------- DeleteServiceHandler
\* the handler without its existence check: the deletes run for any id
DeleteUnchecked(w) ==
  /\ Free(w)
  /\ \E id \in Ids :
       LET h == [Idle EXCEPT !.op = "Delete", !.id = id]
       IN  handler' = [handler EXCEPT ![w] =
             [h EXCEPT !.service = services[id],
                       !.pc = IF impl = "tx" THEN "delete_tx"
                              ELSE "delete_capabilities"]]
  /\ budget' = budget - 1
  /\ UNCHANGED << main, impl, sent, gone, now, tables, nextId, faults, pruner >>

\* the existence check First(&service, "id = ?", serviceID)
DeleteServiceHandler(w) ==
  /\ Free(w)
  /\ \E id \in Ids :
       LET h == [Idle EXCEPT !.op = "Delete", !.id = id]
       IN  handler' = [handler EXCEPT ![w] =
             IF services[id] = NoRow THEN Respond(h, 404)
             ELSE [h EXCEPT !.service = services[id],
                            !.pc = IF impl = "tx" THEN "delete_tx"
                                   ELSE "delete_capabilities"]]
  /\ budget' = budget - 1
  /\ UNCHANGED << main, impl, sent, gone, now, tables, nextId, faults, pruner >>

\* handlers.go: h.DB.Delete(&service), error ignored, then 200
DeleteService(w) ==
  LET h == handler[w] IN
  /\ At(w, "delete_service")
  /\ \E ok \in Outcomes :
       LET done == ok /\ Unreferenced(h.id)
           new == IF done THEN DeleteByKey(services, h.id) ELSE services
       IN  /\ Charge(ok)
           /\ services' = new
           /\ handler' = [handler EXCEPT ![w] =
                Respond(Note(h, done, new # services), 200)]
  /\ UNCHANGED << main, impl, sent, gone, now, capabilities, categories,
                  metadata, nextId,
                  budget, pruner >>

\* the transactional copy: Begin, the three Deletes, Delete(&service),
\* Commit; any failure rolls back and answers 500
DeleteTx(w) ==
  LET h == handler[w] IN
  /\ At(w, "delete_tx")
  /\ \E ok \in Outcomes :
       /\ Charge(ok)
       /\ IF ok
          THEN /\ services' = DeleteByKey(services, h.id)
               /\ capabilities' = DeleteWhere(capabilities, h.id)
               /\ categories' = DeleteWhere(categories, h.id)
               /\ metadata' = DeleteWhere(metadata, h.id)
               /\ handler' = [handler EXCEPT ![w] =
                    Respond(Note(h, TRUE, tables' # tables), 200)]
          ELSE /\ handler' = [handler EXCEPT ![w] =
                    Respond(Note(h, FALSE, FALSE), 500)]
               /\ UNCHANGED tables
  /\ UNCHANGED << main, impl, sent, gone, now, nextId, budget, pruner >>

\* ----------------------------------------------------- HeartbeatHandler
\* First(&service, "id = ?", serviceID)
HeartbeatHandler(w) ==
  /\ Free(w)
  /\ \E id \in Ids :
       LET h == [Idle EXCEPT !.op = "Heartbeat", !.id = id]
       IN  handler' = [handler EXCEPT ![w] =
             IF services[id] = NoRow THEN Respond(h, 404)
             ELSE [h EXCEPT !.service = services[id], !.t0 = now,
                            !.pc = "heartbeat_save"]]
  /\ budget' = budget - 1
  /\ UNCHANGED << main, impl, sent, gone, now, tables, nextId, faults, pruner >>

\* service.LastSeen = time.Now(); h.DB.Save(&service), error ignored
HeartbeatSave(w) ==
  LET h == handler[w] IN
  /\ At(w, "heartbeat_save")
  /\ \E t \in h.t0..now, ok \in Outcomes :
       LET row == [h.service EXCEPT !.LastSeen = t]
           new == IF ok THEN Save(services, h.id, row) ELSE services
       IN  /\ Charge(ok)
           /\ services' = new
           /\ handler' = [handler EXCEPT ![w] =
                Respond(Note(h, ok, new # services), 200)]
  /\ UNCHANGED << main, impl, sent, gone, now, capabilities, categories,
                  metadata, nextId,
                  budget, pruner >>

\* ---------------------------------------------------------- the router
\* a path below /services is the sequence of its segments
IdSegment(id) == ToString(id)

\* the routes of main in src/unnamed/part_002, in the order of registration
RoutesPart002 ==
  << [method |-> "GET", path |-> <<>>, handler |-> "ListServicesHandler"],
     [method |-> "POST", path |-> <<>>, handler |-> "CreateServiceHandler"],
     [method |-> "GET", path |-> <<"search">>,
      handler |-> "SearchServicesHandler"],
     [method |-> "GET", path |-> <<"{id}">>, handler |-> "GetServiceHandler"],
     [method |-> "PUT", path |-> <<"{id}">>,
      handler |-> "UpdateServiceHandler"],
     [method |-> "DELETE", path |-> <<"{id}">>,
      handler |-> "DeleteServiceHandler"],
     [method |-> "GET", path |-> <<"{id}", "heartbeat">>,
      handler |-> "HeartbeatHandler"] >>

\* the routes of main in src/unnamed/part_003, in the order of registration
RoutesPart003 ==
  << [method |-> "GET", path |-> <<>>, handler |-> "ListServicesHandler"],
     [method |-> "GET", path |-> <<"{id}">>, handler |-> "GetServiceHandler"],
     [method |-> "PUT", path |-> <<"{id}">>,
      handler |-> "UpdateServiceHandler"],
     [method |-> "DELETE", path |-> <<"{id}">>,
      handler |-> "DeleteServiceHandler"],
     [method |-> "GET", path |-> <<"{id}", "heartbeat">>,
      handler |-> "SearchServicesHandler"],
     [method |-> "GET", path |-> <<"search">>,
      handler |-> "SearchServicesHandler"] >>

Routes(m) == IF m = "part_002" THEN RoutesPart002 ELSE RoutesPart003

\* mux matches a path template segment by segment: "{id}" takes any one
\* segment, any other segment only itself
Matches(template, path) ==
  /\ Len(template) = Len(path)
  /\ \A i \in DOMAIN template :
       template[i] = "{id}" \/ template[i] = path[i]

\* the handler of the first registered route that matches the method and
\* the path, "none" when no route does
Route(m, method, path) ==
  LET hits == {i \in DOMAIN Routes(m) :
                 /\ Routes(m)[i].method = method
                 /\ Matches(Routes(m)[i].path, path)}
  IN  IF hits = {} THEN "none"
      ELSE Routes(m)[CHOOSE i \in hits : \A j \in hits : i <= j].handler

\* a client sends GET /services/{id}/heartbeat without a query string: the
\* router enters the handler its table gives for the path
GetHeartbeat(w, id) ==
  LET h == Route(main, "GET", << IdSegment(id), "heartbeat" >>) IN
  \/ /\ h = "HeartbeatHandler"
     /\ HeartbeatHandler(w)
     /\ handler'[w].id = id
  \/ /\ h = "SearchServicesHandler"
     /\ SearchServicesHandler(w)
     /\ handler'[w].query = <<>>

\* ------------------------------------------------ the prune goroutine
\* the query with "last_seen <= ?": a service last seen exactly at the
\* cutoff is taken for stale
InactiveOrAtCutoff(cutoff) ==
  {s \in Ids : services[s] # NoRow /\ services[s].LastSeen <= cutoff}

\* db.Where("last_seen < ?", cutoff).Find(&inactiveServices)
Inactive(cutoff) ==
  {s \in Ids : services[s] # NoRow /\ services[s].LastSeen < cutoff}

\* the loop takes the next service of inactiveServices, or sleeps again
PruneNext(p, left) ==
  IF left = {}
  THEN {[p EXCEPT !.pc = "sleep", !.wakeAt = now + SweepInterval,
                  !.inactive = {}, !.cur = 0]}
  ELSE {[p EXCEPT !.pc = "prune_capabilities", !.inactive = left,
                  !.cur = s] : s \in left}

\* cutoff := time.Now().Add(-1 * time.Hour)
Cutoff(t) == t - StaleAfter

\* time.Sleep returns and the cutoff is computed
PruneWake ==
  /\ Running
  /\ pruner.pc = "sleep"
  /\ now >= pruner.wakeAt
  /\ pruner' = [pruner EXCEPT !.pc = "query", !.cutoff = Cutoff(now),
                              !.at = now]
  /\ UNCHANGED << main, impl, sent, gone, now, tables, nextId, budget, faults,
                  handler >>

\* db.Where("last_seen < ?", cutoff).Find(&inactiveServices), error
\* ignored: a failed query leaves inactiveServices empty
PruneQuery ==
  /\ Running
  /\ pruner.pc = "query"
  /\ \E ok \in Outcomes :
       /\ Charge(ok)
       /\ pruner' \in PruneNext(
            [pruner EXCEPT !.removed = {},
                           !.seen = [s \in Ids |->
                              IF services[s] = NoRow THEN -1
                              ELSE services[s].LastSeen]],
            IF ok THEN Inactive(pruner.cutoff) ELSE {})
  /\ UNCHANGED << main, impl, sent, gone, now, tables, nextId, budget,
                  handler >>

\* db.Where("service_id = ?", service.ID).Delete(&types.Capability{})
PruneCapabilities ==
  /\ Running
  /\ pruner.pc = "prune_capabilities"
  /\ \E ok \in Outcomes :
       /\ Charge(ok)
       /\ capabilities' =
            IF ok THEN DeleteWhere(capabilities, pruner.cur) ELSE capabilities
  /\ pruner' = [pruner EXCEPT !.pc = "prune_categories"]
  /\ UNCHANGED << main, impl, sent, gone, now, services, categories, metadata,
                  nextId, budget,
                  handler >>

\* db.Where("service_id = ?", service.ID).Delete(&types.Category{})
PruneCategories ==
  /\ Running
  /\ pruner.pc = "prune_categories"
  /\ \E ok \in Outcomes :
       /\ Charge(ok)
       /\ categories' =
            IF ok THEN DeleteWhere(categories, pruner.cur) ELSE categories
  /\ pruner' = [pruner EXCEPT !.pc = "prune_metadata"]
  /\ UNCHANGED << main, impl, sent, gone, now, services, capabilities, metadata,
                  nextId,
                  budget, handler >>

\* db.Where("service_id = ?", service.ID).Delete(&types.MetadataItem{})
PruneMetadata ==
  /\ Running
  /\ pruner.pc = "prune_metadata"
  /\ \E ok \in Outcomes :
       /\ Charge(ok)
       /\ metadata' =
            IF ok THEN DeleteWhere(metadata, pruner.cur) ELSE metadata
  /\ pruner' = [pruner EXCEPT !.pc = "prune_service"]
  /\ UNCHANGED << main, impl, sent, gone, now, services, capabilities,
                  categories, nextId,
                  budget, handler >>

\* db.Delete(&service) with the error checked and fatal: a delete that
\* leaves the row ends the goroutine
PruneServiceOrExit ==
  /\ Running
  /\ pruner.pc = "prune_service"
  /\ \E ok \in Outcomes :
       /\ Charge(ok)
       /\ services' =
            IF ok /\ Unreferenced(pruner.cur)
            THEN DeleteByKey(services, pruner.cur) ELSE services
  /\ IF services'[pruner.cur] = NoRow
     THEN pruner' \in PruneNext(
            [pruner EXCEPT !.removed = @ \cup {pruner.cur}],
            pruner.inactive \ {pruner.cur})
     ELSE pruner' = [pruner EXCEPT !.pc = "exited",
                                   !.missed = @ \cup {pruner.cur}]
  /\ UNCHANGED << main, impl, sent, gone, now, capabilities, categories,
                  metadata, nextId,
                  budget, handler >>

\* db.Delete(&service), then the next service of the loop
PruneService ==
  /\ Running
  /\ pruner.pc = "prune_service"
  /\ \E ok \in Outcomes :
       /\ Charge(ok)
       /\ services' =
            IF ok /\ Unreferenced(pruner.cur)
            THEN DeleteByKey(services, pruner.cur) ELSE services
  /\ pruner' \in PruneNext(
       [pruner EXCEPT
          !.removed =
            IF services'[pruner.cur] = NoRow THEN @ \cup {pruner.cur} ELSE @,
          !.missed =
            IF services'[pruner.cur] = NoRow THEN @ ELSE @ \cup {pruner.cur}],
       pruner.inactive \ {pruner.cur})
  /\ UNCHANGED << main, impl, sent, gone, now, capabilities, categories,
                  metadata, nextId,
                  budget, handler >>

\* the response is on the wire; the worker takes the next request
Return(w) ==
  /\ handler[w].pc = "done"
  /\ handler' = [handler EXCEPT ![w] = Idle]
  /\ gone' = IF handler[w].op = "Delete" /\ handler[w].status = 200
             THEN gone \cup {handler[w].id} ELSE gone
  /\ UNCHANGED << main, impl, sent, now, tables, nextId, budget, faults, pruner >>

\* ---------------------------------------------------- specifications
\* the statements of the read-back and of Get and List
Read(w) ==
  \/ PreloadCapabilities(w)
  \/ PreloadCategories(w)
  \/ PreloadMetadata(w)

\* the insert loops of Create and Update
Inserts(w) ==
  \/ InsertCapability(w)
  \/ InsertCategory(w)
  \/ InsertMetadata(w)

\* the Where(..).Delete(..) statements of Update and Delete
Deletes(w) ==
  \/ DeleteCapabilities(w)
  \/ DeleteCategories(w)
  \/ DeleteMetadata(w)

Prune ==
  \/ PruneWake
  \/ PruneQuery
  \/ PruneCapabilities
  \/ PruneCategories
  \/ PruneMetadata
  \/ PruneService

\* the whole program: every route, the prune goroutine, the clock
Next ==
  \/ Tick
  \/ Prune
  \/ \E w \in Workers :
       \/ CreateServiceHandler(w)
       \/ CreateService(w)
       \/ CreateTx(w)
       \/ GetServiceHandler(w)
       \/ ListServicesHandler(w)
       \/ ListFind(w)
       \/ UpdateServiceHandler(w)
       \/ UpdateSave(w)
       \/ UpdateTx(w)
       \/ DeleteServiceHandler(w)
       \/ DeleteService(w)
       \/ DeleteTx(w)
       \/ HeartbeatHandler(w)
       \/ HeartbeatSave(w)
       \/ Inserts(w)
       \/ Deletes(w)
       \/ First(w)
       \/ Read(w)
       \/ Return(w)

Spec == Init /\ [][Next]_vars

\* ---- the writers of one registered service against each other (the
\* pruner asleep, the clock still)
InitWriters ==
  /\ Start(RaceRequests, 0)
  /\ Registered(One)

NextWriters ==
  \E w \in Workers :
    \/ UpdateServiceHandler(w)
    \/ UpdateSave(w)
    \/ UpdateTx(w)
    \/ DeleteServiceHandler(w)
    \/ DeleteService(w)
    \/ DeleteTx(w)
    \/ HeartbeatHandler(w)
    \/ HeartbeatSave(w)
    \/ Inserts(w)
    \/ Deletes(w)
    \/ First(w)
    \/ Read(w)
    \/ Return(w)

SpecWriters == InitWriters /\ [][NextWriters]_vars

\* ---- every writing request against every other, from an empty store or
\* one registered service (the pruner asleep, the clock still)
InitStore ==
  /\ Start(RaceRequests, 0)
  /\ Fresh \/ Registered(One)

NextStore ==
  \/ NextWriters
  \/ \E w \in Workers :
       \/ CreateServiceHandler(w)
       \/ CreateService(w)
       \/ CreateTx(w)

SpecStore == InitStore /\ [][NextStore]_vars

\* ---- readers against Update
NextUpdate ==
  \E w \in Workers :
    \/ GetServiceHandler(w)
    \/ ListServicesHandler(w)
    \/ ListFind(w)
    \/ UpdateServiceHandler(w)
    \/ UpdateSave(w)
    \/ UpdateTx(w)
    \/ Inserts(w)
    \/ Deletes(w)
    \/ First(w)
    \/ Read(w)
    \/ Return(w)

SpecUpdate == InitWriters /\ [][NextUpdate]_vars

\* ---- readers against Delete
NextDelete ==
  \E w \in Workers :
    \/ GetServiceHandler(w)
    \/ ListServicesHandler(w)
    \/ ListFind(w)
    \/ DeleteServiceHandler(w)
    \/ DeleteService(w)
    \/ DeleteTx(w)
    \/ Deletes(w)
    \/ Read(w)
    \/ Return(w)

SpecDelete == InitWriters /\ [][NextDelete]_vars

\* ---- Create and Update against a store whose statements may fail
InitFaults ==
  /\ Start(RaceRequests, MaxFaults)
  /\ Fresh \/ Registered(One)

NextFaults ==
  \E w \in Workers :
    \/ CreateServiceHandler(w)
    \/ CreateService(w)
    \/ CreateTx(w)
    \/ UpdateServiceHandler(w)
    \/ UpdateSave(w)
    \/ UpdateTx(w)
    \/ Inserts(w)
    \/ Deletes(w)
    \/ First(w)
    \/ Read(w)
    \/ Return(w)

SpecFaults == InitFaults /\ [][NextFaults]_vars

\* ---- the prune goroutine against heartbeats, two services registered
InitSweep ==
  /\ Start(SweepRequests, 0)
  /\ Registered(Two)

NextSweep ==
  \/ Tick
  \/ Prune
  \/ \E w \in Workers :
       \/ HeartbeatHandler(w)
       \/ HeartbeatSave(w)
       \/ Return(w)

SpecSweep == InitSweep /\ [][NextSweep]_vars

\* ---- the prune goroutine against readers, heartbeats and Delete
InitSweepRace ==
  /\ Start(SweepRequests, 0)
  /\ Registered(One)

NextSweepRace ==
  \/ Tick
  \/ Prune
  \/ \E w \in Workers :
       \/ GetServiceHandler(w)
       \/ DeleteServiceHandler(w)
       \/ DeleteService(w)
       \/ DeleteTx(w)
       \/ HeartbeatHandler(w)
       \/ HeartbeatSave(w)
       \/ Deletes(w)
       \/ Read(w)
       \/ Return(w)

SpecSweepRace == InitSweepRace /\ [][NextSweepRace]_vars

\* ---- one request at a time: Updates of one registered service with any
\* body, and Lists between them
Serial == \A w \in Workers : handler[w].pc = "idle"

InitSerial ==
  /\ StartWith(SerialRequests, 0, RequestIds)
  /\ Registered(One)

NextSerial ==
  \E w \in Workers :
    \/ Serial /\ UpdateServiceHandler(w)
    \/ Serial /\ ListServicesHandler(w)
    \/ UpdateSave(w)
    \/ UpdateTx(w)
    \/ ListFind(w)
    \/ Inserts(w)
    \/ Deletes(w)
    \/ First(w)
    \/ Read(w)
    \/ Return(w)

SpecSerial == InitSerial /\ [][NextSerial]_vars

\* ---- Unregister against the writers in flight, and the readers that
\* come after it
InitUnregister ==
  /\ Start(GoneRequests, 0)
  /\ Registered(One)

NextUnregister ==
  \/ NextWriters
  \/ \E w \in Workers :
       \/ GetServiceHandler(w)
       \/ ListServicesHandler(w)
       \/ ListFind(w)

SpecUnregister == InitUnregister /\ [][NextUnregister]_vars

\* ---- requests by id against a store that may not hold the id
InitById ==
  /\ Start(RaceRequests, 0)
  /\ Fresh \/ Registered(One)

NextById ==
  \/ NextWriters
  \/ \E w \in Workers : GetServiceHandler(w)

SpecById == InitById /\ [][NextById]_vars

\* ---- registrations with every body, well-formed or not, on an empty
\* store
InitRegister ==
  /\ StartWith(RaceRequests, 0, RequestIds)
  /\ Fresh

NextRegister ==
  \E w \in Workers :
    \/ CreateServiceHandler(w)
    \/ CreateService(w)
    \/ CreateTx(w)
    \/ Inserts(w)
    \/ First(w)
    \/ Read(w)
    \/ Return(w)

SpecRegister == InitRegister /\ [][NextRegister]_vars

\* ---- registrations, updates and heartbeats while the clock advances
InitClock ==
  /\ Start(RaceRequests, 0)
  /\ Fresh \/ Registered(One)

NextClock ==
  \/ Tick
  \/ \E w \in Workers :
       \/ CreateServiceHandler(w)
       \/ CreateService(w)
       \/ CreateTx(w)
       \/ UpdateServiceHandler(w)
       \/ UpdateSave(w)
       \/ UpdateTx(w)
       \/ HeartbeatHandler(w)
       \/ HeartbeatSave(w)
       \/ Inserts(w)
       \/ Deletes(w)
       \/ First(w)
       \/ Read(w)
       \/ Return(w)

SpecClock == InitClock /\ [][NextClock]_vars

\* ---- searches of a store that holds one service, whose name and
\* description are any short texts
InitSearch ==
  /\ StartWith(1, 0, {})
  /\ \E name \in Strings \ {<<>>}, description \in Strings :
       /\ Len(description) <= 1
       /\ services = [s \in Ids |->
            IF s = 1 THEN ServiceRow(name, description, "u1", 0, 0)
            ELSE NoRow]
  /\ capabilities = EmptyTable
  /\ categories = EmptyTable
  /\ metadata = EmptyTable
  /\ nextId = 2

NextSearch ==
  \E w \in Workers :
    \/ SearchServicesHandler(w)
    \/ Read(w)
    \/ Return(w)

SpecSearch == InitSearch /\ [][NextSearch]_vars

\* ---- the prune goroutine runs for ever: two services registered, their
\* last heartbeats, store failures, and a clock that does not stop. The
\* goroutine is a "for" loop of its own that the Go scheduler keeps
\* running (weak fairness of its steps), and time passes.
InitLive ==
  /\ Start(LiveRequests, MaxFaults)
  /\ Registered(Two)

NextLive ==
  \/ Tick
  \/ Elapse
  \/ Prune
  \/ \E w \in Workers :
       \/ HeartbeatHandler(w)
       \/ HeartbeatSave(w)
       \/ Return(w)

SpecLive ==
  /\ InitLive
  /\ [][NextLive]_vars
  /\ WF_vars(Tick \/ Elapse)
  /\ WF_vars(Prune)

\* ---- a registered service that sends its heartbeat once in every clock
\* unit (one request for each of the times 0..MaxTime), under either
\* main, while the prune goroutine runs
InitKeepAlive ==
  /\ StartMain(Mains, MaxTime + 1, 0, Payloads)
  /\ Registered(One)

\* the heartbeat request of the current clock unit is still to be sent
Due == budget = MaxTime + 1 - now

\* the clock unit ends after the heartbeat request of the unit was sent
\* and answered
KeepAliveTick ==
  /\ \A w \in Workers : handler[w].pc = "idle"
  /\ ~Due
  /\ Tick

NextKeepAlive ==
  \/ KeepAliveTick
  \/ Prune
  \/ \E w \in Workers :
       \/ \E id \in DOMAIN One : Due /\ GetHeartbeat(w, id)
       \/ HeartbeatSave(w)
       \/ Return(w)

SpecKeepAlive == InitKeepAlive /\ [][NextKeepAlive]_vars

\* ------------------------------------------------------------- claims
\* worker w has answered a request of kind op
Done(w, op) == handler[w].pc = "done" /\ handler[w].op = op

\* service s owns no child row
Childless(s) ==
  /\ capabilities[s] = EmptyBag
  /\ categories[s] = EmptyBag
  /\ metadata[s] = EmptyBag

\* the child rows of s are exactly the ones request r asks for
OwnsRowsOf(s, r) ==
  /\ capabilities[s] = CapabilityRows(Requests[r])
  /\ categories[s] = CategoryRows(Requests[r].Categories)
  /\ metadata[s] = MetadataRows(Requests[r])

\* what a reader loaded for s is the row and the child rows of request r
Loaded(h, s, r) ==
  /\ h.loaded.rows[s].Name = Requests[r].Name
  /\ h.loaded.rows[s].Description = Requests[r].Description
  /\ h.loaded.rows[s].URL = Requests[r].URL
  /\ h.loaded.Capabilities[s] = CapabilityRows(Requests[r])
  /\ h.loaded.Categories[s] = CategoryRows(Requests[r].Categories)
  /\ h.loaded.Metadata[s] = MetadataRows(Requests[r])

\* w answered a Get or a List with a body
Answered(w) ==
  /\ handler[w].pc = "done"
  /\ handler[w].op \in {"Get", "List"}
  /\ handler[w].status = 200

C2_ReaderSeesOneUpdate ==
  \A w \in Workers : Answered(w) =>
    \A s \in handler[w].sel : \E r \in sent : Loaded(handler[w], s, r)

\* C3: an Update one of whose statements failed answers with an error and
\* has changed no row of the store.
C3_FailedUpdateChangesNothing ==
  \A w \in Workers : (Done(w, "Update") /\ handler[w].failed) =>
    (handler[w].status = 500 /\ ~handler[w].wrote)

\* C4: a Register one of whose inserts failed answers with an error and
\* has left no row in the store; a Register that answers 201 has had every
\* insert succeed.
C4_FailedRegisterLeavesNothing ==
  \A w \in Workers : Done(w, "Create") =>
    /\ handler[w].failed => (handler[w].status = 500 /\ ~handler[w].wrote)
    /\ handler[w].status = 201 => ~handler[w].failed

\* C5: a Get or List running beside an Unregister either answers with the
\* service and all the child rows it was registered with, or does not
\* answer with the service at all; and no child row is left in the store
\* once the Service row is gone.
C5_ReaderSeesWholeOrNothing ==
  /\ \A w \in Workers : Answered(w) =>
       \A s \in handler[w].sel : Loaded(handler[w], s, One[s])
  /\ \A s \in Ids : services[s] = NoRow => Childless(s)

\* no request is being served and the pruner sleeps
Quiescent ==
  /\ \A w \in Workers : handler[w].pc = "idle"
  /\ pruner.pc = "sleep"

\* C6: once a heartbeat and the sweep of the same service have both run
\* to their end, the service is either wholly absent (no row, no child
\* row) or wholly present (its row and all the child rows it was
\* registered with).
C6_HeartbeatAndSweepSerialize ==
  Quiescent =>
    \A s \in DOMAIN Two :
      \/ services[s] = NoRow /\ Childless(s)
      \/ services[s] # NoRow /\ OwnsRowsOf(s, Two[s])

\* C7: a heartbeat that read the service before its deletion completed and
\* writes after it is discarded: the write does not recreate the Service
\* row.
C7_LateHeartbeatDiscarded ==
  [][\A w \in Workers :
       (handler[w].pc = "heartbeat_save" /\ handler'[w].pc = "done"
          /\ services[handler[w].id] = NoRow)
       => services'[handler[w].id] = NoRow]_vars

\* C8: one sweep cycle, whose cutoff is the time of the cycle minus
\* StaleAfter, deletes exactly the services whose last_seen the query found
\* strictly older than the cutoff: every such service is deleted, and none
\* whose last_seen is at or after the cutoff.
C8_SweepRemovesExactlyStale ==
  pruner.pc = "sleep" =>
    pruner.removed =
      {s \in Ids : pruner.seen[s] >= 0
                     /\ pruner.seen[s] < pruner.at - StaleAfter}

\* a cycle has ended in which one service was deleted and another, seen at
\* or after the cutoff, was kept
C8_Witness ==
  /\ pruner.pc = "sleep"
  /\ pruner.removed # {}
  /\ \E s \in Ids :
       /\ pruner.seen[s] >= pruner.at - StaleAfter
       /\ s \notin pruner.removed
       /\ services[s] # NoRow

\* C9: the sweeper removes a service in one indivisible step: every step
\* of the pruner that changes the store leaves the swept service without
\* its Service row and without child rows.
C9_SweepDeletesAtomically ==
  [][(pruner' # pruner /\ tables' # tables) =>
       (services'[pruner.cur] = NoRow
          /\ capabilities'[pruner.cur] = EmptyBag
          /\ categories'[pruner.cur] = EmptyBag
          /\ metadata'[pruner.cur] = EmptyBag)]_vars

\* C10: the write of a Heartbeat changes only last_seen: the other columns
\* of the Service row and the child rows stay as they were committed, also
\* when an Update committed after the heartbeat read the row.
C10_HeartbeatChangesOnlyLastSeen ==
  [][\A w \in Workers :
       (handler[w].pc = "heartbeat_save" /\ handler'[w].pc = "done"
          /\ services[handler[w].id] # NoRow)
       => /\ services'[handler[w].id] # NoRow
          /\ services'[handler[w].id] =
               [services[handler[w].id] EXCEPT
                  !.LastSeen = services'[handler[w].id].LastSeen]
          /\ capabilities' = capabilities
          /\ categories' = categories
          /\ metadata' = metadata]_vars

\* the Service row of s is the one body r writes
Holds(s, r) ==
  /\ services[s] # NoRow
  /\ services[s].Name = Requests[r].Name
  /\ services[s].URL = Requests[r].URL

\* the category names of body r
CategoriesOf(r) ==
  {Requests[r].Categories[i] : i \in DOMAIN Requests[r].Categories}

\* C11: when an Update that ran alone has answered 200, the capability,
\* category and metadata rows of its service are exactly the entries of
\* its body (none of the superseded ones); and a List filtered by category
\* c that runs alone returns a service exactly when c is among the
\* categories of the body last written to it.
C11_UpdateReplacesCollections ==
  \A w \in Workers :
    /\ (Done(w, "Update") /\ handler[w].status = 200)
         => OwnsRowsOf(handler[w].id, handler[w].request)
    /\ (Done(w, "List") /\ handler[w].category # "")
         => handler[w].sel =
              {s \in Ids : \E r \in RequestIds :
                 Holds(s, r) /\ handler[w].category \in CategoriesOf(r)}

\* after an Update dropped category "search", a List filtered by "search"
\* has answered without the service
C11_Witness ==
  \E w \in Workers :
    /\ Done(w, "List")
    /\ handler[w].category = "search"
    /\ handler[w].sel = {}
    /\ \E s \in Ids : services[s] # NoRow /\ services[s].Name = "beta"
                       /\ categories[s] = CategoryRows(<<"index">>)

\* the child rows body r asks for
RowsOf(r) ==
  << CapabilityRows(Requests[r]), CategoryRows(Requests[r].Categories),
     MetadataRows(Requests[r]) >>

\* C12: an Update that ran alone on a service whose child rows were
\* already the ones of its body (the same Update had been applied before)
\* and answered 200 leaves the same capability, category and metadata
\* rows, each once.
C12_UpdateIdempotent ==
  \A w \in Workers :
    (Done(w, "Update") /\ handler[w].status = 200
       /\ handler[w].before = RowsOf(handler[w].request))
    => ChildRows(handler[w].id) = handler[w].before

\* a second Update with body beta has answered 200 on the service the
\* first one had rewritten from alpha to beta
C12_Witness ==
  \E w \in Workers :
    /\ Done(w, "Update")
    /\ handler[w].status = 200
    /\ Requests[handler[w].request].Name = "beta"
    /\ handler[w].before = RowsOf(handler[w].request)
    /\ Holds(handler[w].id, handler[w].request)

\* worker w takes a request of kind op in this step
Takes(w, op) == handler[w].pc = "idle" /\ handler'[w].op = op

\* C13: once a DELETE of an id has been answered 200, every Get of that id
\* that starts afterwards answers 404 and the service query of every List
\* that starts afterwards does not return the id, whatever was in flight
\* on the id when the DELETE ran.
C13_UnregisteredStaysGone ==
  [][\A w \in Workers :
       /\ (Takes(w, "Get") /\ handler'[w].id \in gone)
            => (handler'[w].pc = "done" /\ handler'[w].status = 404)
       /\ (Takes(w, "List") /\ handler'[w].category = "")
            => handler'[w].sel \cap gone = {}]_vars

\* C14: a Get, Update, Heartbeat or Unregister that finds no Service row
\* for its id answers 404 at once and changes no table.
C14_AbsentIdIsNotFound ==
  [][\A w \in Workers :
       ((\E op \in {"Get", "Update", "Heartbeat", "Delete"} : Takes(w, op))
          /\ services[handler'[w].id] = NoRow)
       => /\ handler'[w].pc = "done"
          /\ handler'[w].status = 404
          /\ tables' = tables]_vars

\* an Update of an id that was unregistered before has answered 404
C14_Witness ==
  \E w \in Workers :
    /\ Done(w, "Update")
    /\ handler[w].status = 404
    /\ handler[w].id \in gone
    /\ services[handler[w].id] = NoRow
    /\ Childless(handler[w].id)

\* body r has an empty name, an empty url, no capabilities field or no
\* categories field
Incomplete(r) ==
  \/ Requests[r].Name = ""
  \/ Requests[r].URL = ""
  \/ "Capabilities" \in Requests[r].nil
  \/ "Categories" \in Requests[r].nil

\* C15: a Register whose body has an empty name, an empty url, no
\* capabilities field or no categories field answers 400 at once, writes no
\* row and takes no id; any other body, also one whose capabilities and
\* categories are present and empty, is accepted and goes on to its insert.
C15_RegisterValidates ==
  [][\A w \in Workers : Takes(w, "Create") =>
       IF Incomplete(handler'[w].request)
       THEN /\ handler'[w].pc = "done"
            /\ handler'[w].status = 400
            /\ tables' = tables
            /\ nextId' = nextId
       ELSE /\ handler'[w].pc \in {"insert_service", "create_tx"}
            /\ handler'[w].id = nextId]_vars

\* a body with an empty name was answered 400 on a store that holds
\* nothing but the service of a body with empty capabilities and
\* categories, registered before
C15_Witness ==
  \E w \in Workers :
    /\ Done(w, "Create")
    /\ handler[w].status = 400
    /\ Requests[handler[w].request].Name = ""
    /\ \E s \in Ids :
         /\ services[s] # NoRow
         /\ services[s].Name = "gamma"
         /\ capabilities[s] = EmptyBag
         /\ categories[s] = EmptyBag
    /\ Cardinality({s \in Ids : services[s] # NoRow}) = 1

\* C16: the Service a Register answers with (201) carries a capability
\* mapping equal to the body's, the body's categories as a set, and a
\* metadata mapping equal to the body's (empty when the body has none).
C16_RegisterRoundTrip ==
  \A w \in Workers :
    (Done(w, "Create") /\ handler[w].status = 201)
    => /\ handler[w].sel = {handler[w].id}
       /\ \A resp \in ServiceModelToResponse(handler[w].loaded,
                                               handler[w].id) :
            /\ resp.Capabilities = Req(handler[w]).Capabilities
            /\ BagToSet(resp.Categories) = CategoriesOf(handler[w].request)
            /\ resp.Metadata = Req(handler[w]).Metadata

\* a Register with two capabilities, a category named twice and one
\* metadata entry has answered 201
C16_Witness ==
  \E w \in Workers :
    /\ Done(w, "Create")
    /\ handler[w].status = 201
    /\ Req(handler[w]).Name = "eta"
    /\ \E resp \in ServiceModelToResponse(handler[w].loaded, handler[w].id) :
         /\ DOMAIN resp.Capabilities = {"c", "d"}
         /\ resp.Categories = SetToBag({"search"}) (+) SetToBag({"search"})
         /\ DOMAIN resp.Metadata = {"k"}

\* C17: every Service row has last_seen at or after created_at; Register
\* stores the two as the same instant.
C17_LastSeenNotBeforeCreatedAt ==
  \A s \in Ids :
    services[s] # NoRow => services[s].LastSeen >= services[s].CreatedAt

\* C18: as long as a Service row exists its created_at does not change,
\* whatever Update or Heartbeat writes the row, alone or interleaved (the
\* id is the key the row is stored under).
C18_CreatedAtImmutable ==
  [][\A s \in Ids :
       (services[s] # NoRow /\ services'[s] # NoRow)
       => services'[s].CreatedAt = services[s].CreatedAt]_vars

\* an Update has rewritten, later than its creation, a service that was
\* registered during this run
C18_Witness ==
  \E w \in Workers :
    /\ Done(w, "Update")
    /\ handler[w].status = 200
    /\ services[handler[w].id] # NoRow
    /\ services[handler[w].id].Name = Req(handler[w]).Name
    /\ services[handler[w].id].CreatedAt > 0
    /\ services[handler[w].id].LastSeen > services[handler[w].id].CreatedAt

\* C19: a List filtered by category c answers with services that each
\* carry c among their returned categories, also when an Update or an
\* Unregister of a service runs between the lookup of the ids and the
\* service query; a List without filter answers with registered services
\* only.
C19_ListReturnsTaggedServices ==
  \A w \in Workers :
    (Done(w, "List") /\ handler[w].status = 200)
    => \A s \in handler[w].sel :
         \A resp \in ServiceModelToResponse(handler[w].loaded, s) :
           handler[w].category # "" => BagIn(handler[w].category,
                                             resp.Categories)

\* sub occurs in text as a run of consecutive characters, letters compared
\* without regard to case
Contains(text, sub) ==
  \E i \in 0..(Len(text) - Len(sub)) :
    \A j \in 1..Len(sub) : Lower(text[i + j]) = Lower(sub[j])

\* C20: a Search with empty text answers 400; with non-empty text it
\* answers 200 with exactly the services whose name or description
\* contains the text as a case-insensitive substring anywhere in the field.
C20_SearchMatchesSubstring ==
  \A w \in Workers : Done(w, "Search") =>
    IF Len(handler[w].query) = 0
    THEN handler[w].status = 400
    ELSE /\ handler[w].status = 200
         /\ handler[w].sel =
              {s \in Ids :
                 /\ services[s] # NoRow
                 /\ \/ Contains(services[s].Name, handler[w].query)
                    \/ Contains(services[s].Description, handler[w].query)}
\* no request is being served and none is to come: the services have
\* stopped sending heartbeats
Silent == budget = 0 /\ \A w \in Workers : handler[w].pc = "idle"

\* C21: a failed sweep cycle does not stop the sweeper: once a registered
\* service sends no more heartbeats and is not updated, some later cycle
\* of the prune loop removes it, whatever statements of earlier cycles
\* failed
C21_SilentServiceEventuallyPruned ==
  \A s \in Ids : (Silent /\ services[s] # NoRow) ~> (services[s] = NoRow)

\* a service that one cycle failed to delete is gone after a later one
C21_Witness ==
  /\ Silent
  /\ \E s \in pruner.missed : services[s] = NoRow

\* worker w serves an Update, has made all its writes and is reading the
\* service back, or has answered 200
Written(w) ==
  /\ handler[w].op = "Update"
  /\ \/ handler[w].pc \in {"first", "preload_capabilities",
                            "preload_categories", "preload_metadata"}
     \/ handler[w].pc = "done" /\ handler[w].status = 200

\* C22: two Updates of one service with different bodies that ran side by
\* side and both answer 200 did not interleave their row writes: once both
\* have written, the service's name and url and its capability, category
\* and metadata rows are those of one and the same of the two bodies (no
\* union of the two, no row twice, no collection left empty).
C22_ConcurrentUpdatesDoNotInterleave ==
  \A w, v \in Workers :
    ( /\ Written(w) /\ Written(v)
      /\ handler[w].id = handler[v].id
      /\ handler[w].request # handler[v].request )
    => \E r \in {handler[w].request, handler[v].request} :
         /\ Holds(handler[w].id, r)
         /\ OwnsRowsOf(handler[w].id, r)

\* C23: the stored last_seen of a service never decreases while its row
\* exists: no Heartbeat and no Update, in whatever order their statements
\* interleave, writes a last_seen earlier than the one the row holds.
C23_LastSeenMonotonic ==
  [][\A s \in Ids :
       (services[s] # NoRow /\ services'[s] # NoRow)
       => services'[s].LastSeen >= services[s].LastSeen]_vars

\* C24: an Update that found its service and makes its writes after an
\* Unregister of the same id has answered 200 does not bring the service
\* back: while the id is absent, no step of the Update creates a Service
\* row or a child row for it.
C24_UpdateDoesNotResurrect ==
  [][\A w \in Workers :
       ( /\ handler[w].op = "Update"
         /\ handler'[w] # handler[w]
         /\ handler[w].id \in gone
         /\ services[handler[w].id] = NoRow
         /\ Childless(handler[w].id) )
       => ( /\ services'[handler[w].id] = NoRow
            /\ capabilities'[handler[w].id] = EmptyBag
            /\ categories'[handler[w].id] = EmptyBag
            /\ metadata'[handler[w].id] = EmptyBag )]_vars

\* C25: a registered service that sends a heartbeat request in every
\* interval shorter than StaleAfter is never removed by the prune
\* goroutine: its requests refresh last_seen, so its row is there and its
\* last_seen is at or after every cutoff the goroutine queries with.
C25_HeartbeatKeepsServiceAlive ==
  \A s \in DOMAIN One :
    /\ services[s] # NoRow
    /\ pruner.pc = "query" => services[s].LastSeen >= pruner.cutoff

\* C26: the Service a successful Register (201) or Update (200) answers
\* with is the state this call committed: it was read for the call's id
\* and its name, description, url and collections are those of the call's
\* body, also when an Update or an Unregister of the same id runs between
\* the call's commit and its read-back.
C26_ResponseIsCommittedState ==
  \A w \in Workers :
    ( /\ handler[w].pc = "done"
      /\ \/ handler[w].op = "Create" /\ handler[w].status = 201
         \/ handler[w].op = "Update" /\ handler[w].status = 200 )
    => /\ handler[w].sel = {handler[w].id}
       /\ Loaded(handler[w], handler[w].id, handler[w].request)

====
